---- MODULE Spec2Model ----
(***************************************************************************)
(* Model of the Ethernet L2 layer, subsys/net/ip/l2/ethernet/ethernet.c:   *)
(* the per-device VLAN tag table (ethernet_init, net_eth_vlan_enable,      *)
(* net_eth_vlan_disable, net_eth_is_vlan_enabled, ethernet_reserve), the   *)
(* receive pipeline (ethernet_recv, ethernet_update_length) and the        *)
(* transmit pipeline (ethernet_send, set_vlan_tag, net_eth_fill_header).   *)
(* The build modelled has CONFIG_NET_VLAN, CONFIG_NET_ARP, CONFIG_NET_IPV4 *)
(* and CONFIG_NET_IPV6 defined.                                            *)
(***************************************************************************)
EXTENDS Integers, Sequences, FiniteSets, TLC

(***************************************************************************)
(* Configuration and bounds                                                *)
(***************************************************************************)

\* capacity of the VLAN table of one context (Kconfig value)
CONFIG_NET_VLAN_COUNT == 2

\* NET_VLAN_MAX_COUNT is CONFIG_NET_VLAN_COUNT when VLAN support is built
NET_VLAN_MAX_COUNT == CONFIG_NET_VLAN_COUNT

\* the "unspecified" tag, 0x0fff
NET_VLAN_TAG_UNSPEC == 4095

\* the null interface pointer
NULL == 0

\* Network interfaces.  1 and 2 are Ethernet interfaces of device "ethA",
\* whose hardware has the VLAN capability; 3 is the Ethernet interface of
\* device "ethB", which has not; 4 is an interface of another L2.
Ifaces == 1..4

Contexts == {"ethA", "ethB"}

\* net_if_l2_data(iface): the context of the device the interface is on
net_if_l2_data(iface) == IF iface \in {1, 2} THEN "ethA" ELSE "ethB"

\* net_if_l2(iface) == &NET_L2_GET_NAME(ETHERNET)
IsEthernetL2(iface) == iface \in {1, 2, 3}

\* net_eth_get_hw_capabilities(iface) & ETHERNET_HW_VLAN
HasHwVlan(iface) == net_if_l2_data(iface) = "ethA"

\* eth->vlan_setup is present in the driver API of the device
HasVlanSetup(iface) == net_if_l2_data(iface) = "ethA"

\* net_if_get_by_iface(iface): the index of a registered interface
net_if_get_by_iface(iface) == IF iface \in Ifaces THEN iface - 1 ELSE -1

\* tags the callers pass: 0 (the value of zeroed memory), a concrete one,
\* and the unspecified sentinel
TagArgs == {0, 7, NET_VLAN_TAG_UNSPEC}

Slots == 1..CONFIG_NET_VLAN_COUNT

VARIABLES
  ctx,          \* Contexts -> struct ethernet_context
  everEnabled,  \* Contexts -> has an enable call succeeded on the context
  initCalls,    \* Ifaces -> recorded ethernet_init calls for the interface
                \* so far: 0, 1, or 2 for more than one
  last,         \* the most recent call of the VLAN/reserve API and its result
  rx,           \* the most recent ethernet_recv call, or NoRx
  tx,           \* the most recent ethernet_send call, or NoTx
  ul            \* the packet of the padding fix-up run, or NoUl

vars == <<ctx, everEnabled, initCalls, last, rx, tx, ul>>

\* a context in zero-initialised static storage
ZeroContext ==
  [vlan |-> [i \in 1..CONFIG_NET_VLAN_COUNT |-> [iface |-> NULL,
                                                 tag |-> 0]],
   interfaces |-> {},
   vlan_enabled |-> 0,
   is_init |-> FALSE]

\* A call record: the operation, its arguments, its return value (ret for
\* the int-returning calls, size for ethernet_reserve, found for
\* net_eth_get_vlan_iface), whether the driver's
\* vlan_setup hook was invoked, the context as it was when the call began,
\* and whether the call repeats the operation and arguments of the call just
\* before it, which had succeeded.
NoCall == [iface |-> NULL,
           tag |-> 0,
           op |-> "none",
           ret |-> "none",
           size |-> 0,
           hook |-> FALSE,
           again |-> FALSE,
           pre |-> ZeroContext,
           found |-> NULL]
NoRx == [op |-> "none"]
NoTx == [op |-> "none"]
NoUl == [n |-> 0]

(***************************************************************************)
(* VLAN tag table                                                          *)
(***************************************************************************)

\* the index at which a loop over the table in index order stops, S being
\* the indices that satisfy its test; 0 when it runs to the end
FirstSlot(S) ==
  IF S # {}
  THEN CHOOSE i \in S : \A j \in S : i <= j
  ELSE 0

is_vlan_enabled_for_iface(c, iface) ==
  IF net_if_get_by_iface(iface) < 0
  THEN FALSE
  ELSE net_if_get_by_iface(iface) \in c.interfaces

net_eth_is_vlan_enabled(c, iface) ==
  IF c.vlan_enabled # 0
  THEN IF c.vlan_enabled = NET_VLAN_MAX_COUNT
       THEN TRUE
       ELSE is_vlan_enabled_for_iface(c, iface)
  ELSE FALSE

\* enable_vlan_iface setting the bit one place off
enable_vlan_iface_offbyone(c, iface) ==
  IF net_if_get_by_iface(iface) < 0
  THEN c
  ELSE [c EXCEPT !.interfaces = @ \cup {net_if_get_by_iface(iface) + 1}]

enable_vlan_iface(c, iface) ==
  IF net_if_get_by_iface(iface) < 0
  THEN c
  ELSE [c EXCEPT !.interfaces = @ \cup {net_if_get_by_iface(iface)}]

\* disable_vlan_iface leaving the bit of the interface set
disable_vlan_iface_keep(c, iface) == c

disable_vlan_iface(c, iface) ==
  IF net_if_get_by_iface(iface) < 0
  THEN c
  ELSE [c EXCEPT !.interfaces = @ \ {net_if_get_by_iface(iface)}]

\* the loop of net_eth_get_vlan_iface from index i on, first being the value
\* of first_non_vlan_iface so far
RECURSIVE GetVlanIfaceFrom(_, _, _, _)
GetVlanIfaceFrom(c, tag, i, first) ==
  IF i > CONFIG_NET_VLAN_COUNT THEN first
  ELSE IF c.vlan[i].tag = NET_VLAN_TAG_UNSPEC
       THEN GetVlanIfaceFrom(c, tag, i + 1,
                             IF first = NULL THEN c.vlan[i].iface ELSE first)
       ELSE IF c.vlan[i].tag # tag
            THEN GetVlanIfaceFrom(c, tag, i + 1, first)
            ELSE c.vlan[i].iface

\* net_eth_get_vlan_iface without the fallback interface
net_eth_get_vlan_iface_nofallback(c, tag) ==
  IF \E i \in Slots : c.vlan[i].tag = tag
  THEN c.vlan[FirstSlot({i \in Slots : c.vlan[i].tag = tag})].iface
  ELSE NULL

net_eth_get_vlan_iface(c, tag) == GetVlanIfaceFrom(c, tag, 1, NULL)

\* get_vlan comparing the tag only
get_vlan_tagonly(c, iface, vlan_tag) ==
  FirstSlot({i \in Slots : c.vlan[i].tag = vlan_tag})

\* index of the first entry (iface, vlan_tag), or 0 for the null pointer
get_vlan(c, iface, vlan_tag) ==
  FirstSlot({i \in Slots : c.vlan[i].iface = iface
                            /\ c.vlan[i].tag = vlan_tag})

\* the slot net_eth_vlan_enable claims: the first one owned by iface whose
\* tag is unspecified, or 0
EnableSlot(c, iface) ==
  FirstSlot({i \in Slots : c.vlan[i].iface = iface
                            /\ c.vlan[i].tag = NET_VLAN_TAG_UNSPEC})

\* net_eth_vlan_enable without the test for an existing entry
net_eth_vlan_enable_ret_nodup(c, iface, tag) ==
  IF ~IsEthernetL2(iface) THEN "-EINVAL"
  ELSE IF ~c.is_init THEN "-EPERM"
  ELSE IF tag = NET_VLAN_TAG_UNSPEC THEN "-EBADF"
  ELSE IF EnableSlot(c, iface) # 0 THEN "0"
  ELSE "-ENOSPC"

\* net_eth_vlan_enable testing the tag before the initialized flag
net_eth_vlan_enable_ret_tagfirst(c, iface, tag) ==
  IF ~IsEthernetL2(iface) THEN "-EINVAL"
  ELSE IF tag = NET_VLAN_TAG_UNSPEC THEN "-EBADF"
  ELSE IF ~c.is_init THEN "-EPERM"
  ELSE IF get_vlan(c, iface, tag) # 0 THEN "-EALREADY"
  ELSE IF EnableSlot(c, iface) # 0 THEN "0"
  ELSE "-ENOSPC"

\* the return value of net_eth_vlan_enable(iface, tag) on context c
net_eth_vlan_enable_ret(c, iface, tag) ==
  IF ~IsEthernetL2(iface) THEN "-EINVAL"
  ELSE IF ~c.is_init THEN "-EPERM"
  ELSE IF tag = NET_VLAN_TAG_UNSPEC THEN "-EBADF"
  ELSE IF get_vlan(c, iface, tag) # 0 THEN "-EALREADY"
  ELSE IF EnableSlot(c, iface) # 0 THEN "0"
  ELSE "-ENOSPC"

\* net_eth_vlan_enable setting the bit of the interface before it looks for
\* a slot
net_eth_vlan_enable_ctx_bitfirst(c, iface, tag) ==
  IF net_eth_vlan_enable_ret(c, iface, tag)
       \in {"-EINVAL", "-EPERM", "-EBADF", "-EALREADY"}
  THEN c
  ELSE IF net_eth_vlan_enable_ret(c, iface, tag) = "-ENOSPC"
  THEN enable_vlan_iface(c, iface)
  ELSE LET c1 == [c EXCEPT !.vlan[EnableSlot(c, iface)].tag = tag]
           c2 == enable_vlan_iface(c1, iface)
           n  == c2.vlan_enabled + 1
       IN [c2 EXCEPT !.vlan_enabled =
                       IF n > NET_VLAN_MAX_COUNT THEN NET_VLAN_MAX_COUNT
                       ELSE n]

\* the context net_eth_vlan_enable(iface, tag) leaves
net_eth_vlan_enable_ctx(c, iface, tag) ==
  IF net_eth_vlan_enable_ret(c, iface, tag) # "0"
  THEN c
  ELSE LET c1 == [c EXCEPT !.vlan[EnableSlot(c, iface)].tag = tag]
           c2 == enable_vlan_iface(c1, iface)
           n  == c2.vlan_enabled + 1
       IN [c2 EXCEPT !.vlan_enabled =
                       IF n > NET_VLAN_MAX_COUNT THEN NET_VLAN_MAX_COUNT
                       ELSE n]

\* the return value of net_eth_vlan_disable(iface, tag) on context c
net_eth_vlan_disable_ret(c, iface, tag) ==
  IF ~IsEthernetL2(iface) THEN "-EINVAL"
  ELSE IF tag = NET_VLAN_TAG_UNSPEC THEN "-EBADF"
  ELSE IF get_vlan(c, iface, tag) = 0 THEN "-ESRCH"
  ELSE "0"

\* net_eth_vlan_disable leaving the count as it is
net_eth_vlan_disable_ctx_nodec(c, iface, tag) ==
  IF net_eth_vlan_disable_ret(c, iface, tag) # "0"
  THEN c
  ELSE disable_vlan_iface(
         [c EXCEPT !.vlan[get_vlan(c, iface, tag)].tag = NET_VLAN_TAG_UNSPEC],
         iface)

\* the context net_eth_vlan_disable(iface, tag) leaves
net_eth_vlan_disable_ctx(c, iface, tag) ==
  IF net_eth_vlan_disable_ret(c, iface, tag) # "0"
  THEN c
  ELSE LET c1 == [c EXCEPT !.vlan[get_vlan(c, iface, tag)].tag =
                             NET_VLAN_TAG_UNSPEC]
           c2 == disable_vlan_iface(c1, iface)
           n  == c2.vlan_enabled - 1
       IN [c2 EXCEPT !.vlan_enabled = IF n < 0 THEN 0 ELSE n]

\* ethernet_init without the break: every free slot is claimed
ethernet_init_ctx_nobreak(c, iface) ==
  IF ~HasHwVlan(iface)
  THEN c
  ELSE [c EXCEPT !.vlan = [i \in Slots |->
                             IF c.vlan[i].iface = NULL
                             THEN [iface |-> iface,
                                   tag |-> NET_VLAN_TAG_UNSPEC]
                             ELSE c.vlan[i]],
                 !.interfaces = IF c.is_init
                                   \/ ~\E i \in Slots : c.vlan[i].iface = NULL
                                THEN @ ELSE {},
                 !.is_init = TRUE]

\* the context ethernet_init(iface) leaves
ethernet_init_ctx(c, iface) ==
  IF ~HasHwVlan(iface)
  THEN c
  ELSE LET i  == FirstSlot({k \in Slots : c.vlan[k].iface = NULL})
           c1 == IF i = 0 THEN c
                 ELSE [c EXCEPT !.vlan[i] =
                                  [iface |-> iface,
                                   tag |-> NET_VLAN_TAG_UNSPEC],
                                !.interfaces =
                                  IF c.is_init THEN @ ELSE {}]
       IN [c1 EXCEPT !.is_init = TRUE]

\* sizes of struct net_eth_hdr and struct net_eth_vlan_hdr
SizeofEthHdr == 14
SizeofEthVlanHdr == 18

ethernet_reserve(c, iface) ==
  IF net_eth_is_vlan_enabled(c, iface) THEN SizeofEthVlanHdr
  ELSE SizeofEthHdr

(***************************************************************************)
(* Link addresses and frames                                               *)
(***************************************************************************)

\* ether types, host byte order: 0x0800, 0x0806, 0x86dd, 0x8100
NET_ETH_PTYPE_IP == 2048
NET_ETH_PTYPE_ARP == 2054
NET_ETH_PTYPE_IPV6 == 34525
NET_ETH_PTYPE_VLAN == 33024

\* minimal Ethernet frame, and the fixed IPv6 header
NET_ETH_MINIMAL_FRAME_SIZE == 60
NET_IPV6H_LEN == 40

broadcast_eth_addr == <<255, 255, 255, 255, 255, 255>>

\* net_if_get_link_addr(iface)->addr: the interface's own link address
net_if_get_link_addr(iface) == <<2, 0, 0, 0, 0, iface>>

net_eth_is_addr_broadcast(addr) == \A i \in 1..6 : addr[i] = 255

\* the low bit of the first octet is set
net_eth_is_addr_multicast(addr) == addr[1] % 2 = 1

\* net_linkaddr_cmp for two Ethernet addresses
net_linkaddr_cmp(a, b) == a = b

\* ntohs of a 16-bit field whose two bytes in the frame are w[1], w[2]
ntohs(w) == w[1] * 256 + w[2]

\* net_buf_pull(frag, n) on the first fragment of a chain of lengths
net_buf_pull(pkt, n) ==
  [pkt EXCEPT !.data = @ + n, !.frags[1] = @ - n]

(***************************************************************************)
(* Padding fix-up                                                          *)
(***************************************************************************)

\* A received packet: the bytes of its first fragment from offset 12 on
\* (w[k] is the byte pair at offsets k, k+1 of the frame), the offset data
\* of the first fragment's data start, and the fragment lengths.

\* the u16 len ethernet_update_length computes from the IP header, which is
\* at the data start of the first fragment
DeclaredLen(pkt) ==
  IF pkt.family = "AF_INET"
  THEN (pkt.w[pkt.data + 2][1] * 256 + pkt.w[pkt.data + 2][2]) % 65536
  ELSE (pkt.w[pkt.data + 4][1] * 256 + pkt.w[pkt.data + 4][2]
        + NET_IPV6H_LEN) % 65536

\* the fragment loop shortening the straddling fragment by len instead of
\* to len
RECURSIVE TrimFrags_by(_, _, _)
TrimFrags_by(frags, k, len) ==
  IF k > Len(frags) THEN frags
  ELSE IF frags[k] < len
       THEN TrimFrags_by(frags, k + 1, len - frags[k])
       ELSE TrimFrags_by([frags EXCEPT ![k] = @ - len], k + 1, 0)

\* the fragment loop, from fragment k on, with len bytes still to keep
RECURSIVE TrimFrags(_, _, _)
TrimFrags(frags, k, len) ==
  IF k > Len(frags) THEN frags
  ELSE IF frags[k] < len
       THEN TrimFrags(frags, k + 1, len - frags[k])
       ELSE TrimFrags([frags EXCEPT ![k] = len], k + 1, 0)

ethernet_update_length(pkt) ==
  IF DeclaredLen(pkt) < NET_ETH_MINIMAL_FRAME_SIZE - SizeofEthHdr
  THEN [pkt EXCEPT !.frags = TrimFrags(pkt.frags, 1, DeclaredLen(pkt))]
  ELSE pkt

(***************************************************************************)
(* Receive pipeline                                                        *)
(***************************************************************************)

\* RecvUnwrap widening the header whenever VLAN is enabled
RecvUnwrap_widen(c, iface, pkt) ==
  LET type0  == ntohs(pkt.w[12])
      vlan   == net_eth_is_vlan_enabled(c, iface)
      tagged == vlan /\ type0 = NET_ETH_PTYPE_VLAN
  IN IF tagged
     THEN [pkt |-> [pkt EXCEPT !.vlan_tci = ntohs(pkt.w[14])],
           type |-> ntohs(pkt.w[16]), hdr_len |-> SizeofEthVlanHdr]
     ELSE [pkt |-> pkt, type |-> type0,
           hdr_len |-> IF vlan THEN SizeofEthVlanHdr ELSE SizeofEthHdr]

\* RecvUnwrap not recording the TCI on the packet
RecvUnwrap_notci(c, iface, pkt) ==
  LET type0  == ntohs(pkt.w[12])
      tagged == net_eth_is_vlan_enabled(c, iface)
                /\ type0 = NET_ETH_PTYPE_VLAN
  IN IF tagged
     THEN [pkt |-> pkt,
           type |-> ntohs(pkt.w[16]), hdr_len |-> SizeofEthVlanHdr]
     ELSE [pkt |-> pkt, type |-> type0, hdr_len |-> SizeofEthHdr]

\* The head of ethernet_recv: the type is read at the plain offset; when
\* VLAN is enabled for the interface and the type is the VLAN TPID, the TCI
\* is recorded on the packet, the type is re-read from the inner field and
\* the header length is widened.
RecvUnwrap(c, iface, pkt) ==
  LET type0  == ntohs(pkt.w[12])
      tagged == net_eth_is_vlan_enabled(c, iface)
                /\ type0 = NET_ETH_PTYPE_VLAN
  IN IF tagged
     THEN [pkt |-> [pkt EXCEPT !.vlan_tci = ntohs(pkt.w[14])],
           type |-> ntohs(pkt.w[16]), hdr_len |-> SizeofEthVlanHdr]
     ELSE [pkt |-> pkt, type |-> type0, hdr_len |-> SizeofEthHdr]

\* the filter with the result of net_linkaddr_cmp taken the wrong way round
RecvNotForMe_cmp(iface, lladdr) ==
  /\ ~net_eth_is_addr_broadcast(lladdr)
  /\ ~net_eth_is_addr_multicast(lladdr)
  /\ net_linkaddr_cmp(net_if_get_link_addr(iface), lladdr)

\* the filter of ethernet_recv: the frame is not for this interface
RecvNotForMe(iface, lladdr) ==
  /\ ~net_eth_is_addr_broadcast(lladdr)
  /\ ~net_eth_is_addr_multicast(lladdr)
  /\ ~net_linkaddr_cmp(net_if_get_link_addr(iface), lladdr)

\* ethernet_recv(iface, pkt) on context c; arp is what net_arp_input
\* returns if it is called.  The result is the verdict, the return statement
\* taken, the packet as the call leaves it, the number of bytes pulled from
\* the first fragment and the packets the call released.
ethernet_recv(c, iface, pkt, arp) ==
  LET u      == RecvUnwrap(c, iface, pkt)
      family == IF u.type = NET_ETH_PTYPE_IPV6 THEN "AF_INET6" ELSE "AF_INET"
      pkt2   == [u.pkt EXCEPT !.family = family,
                              !.ll_src = pkt.src, !.ll_dst = pkt.dst]
      pkt3   == net_buf_pull([pkt2 EXCEPT !.ll_reserve = u.hdr_len],
                             u.hdr_len)
  IN
  IF u.type \notin {NET_ETH_PTYPE_IP, NET_ETH_PTYPE_ARP, NET_ETH_PTYPE_IPV6}
  THEN [pkt |-> u.pkt,
        verdict |-> "NET_DROP",
        site |-> "unknown_type",
        pulled |-> 0,
        unref |-> <<>>]
  ELSE IF RecvNotForMe(iface, pkt2.ll_dst)
  THEN [pkt |-> pkt2,
        verdict |-> "NET_DROP",
        site |-> "not_for_me",
        pulled |-> 0,
        unref |-> <<>>]
  ELSE IF family = "AF_INET" /\ u.type = NET_ETH_PTYPE_ARP
  THEN [pkt |-> pkt3,
        verdict |-> arp,
        site |-> "arp_input",
        pulled |-> u.hdr_len,
        unref |-> <<>>]
  ELSE [pkt |-> ethernet_update_length(pkt3),
        verdict |-> "NET_CONTINUE",
        site |-> "continue",
        pulled |-> u.hdr_len,
        unref |-> <<>>]

(***************************************************************************)
(* Transmit pipeline                                                       *)
(***************************************************************************)

\* A packet to send: its identity, family, network-layer destination (four
\* octets of IPv4, sixteen of IPv6), the interface owning its network-layer
\* source address (NULL if the lookup fails), the VLAN TCI, the priority,
\* the link-header reserve, the link source and destination pointers, and
\* the fragments.  A fragment is its length, the header bytes in its
\* headroom (dst, src and the byte pairs at offsets 12, 14, 16 from the
\* header's start) and the number of payload bytes a header write went over.
\*
\* A link address pointer is null, or points at the broadcast constant, at
\* the interface's link address, at the dst or src field of the header in
\* the first fragment, or at other memory holding val.
NullPtr == [kind |-> "null", val |-> <<>>]
BcastPtr == [kind |-> "bcast", val |-> <<>>]
IfacePtr(iface) == [kind |-> "iface", val |-> net_if_get_link_addr(iface)]
HdrDstPtr == [kind |-> "hdr_dst", val |-> <<>>]
HdrSrcPtr == [kind |-> "hdr_src", val |-> <<>>]
ExtPtr(addr) == [kind |-> "ext", val |-> addr]

\* the six octets a pointer of packet pkt points at
Deref(pkt, ptr) ==
  CASE ptr.kind = "bcast" -> broadcast_eth_addr
    [] ptr.kind = "hdr_dst" -> pkt.frags[1].dst
    [] ptr.kind = "hdr_src" -> pkt.frags[1].src
    [] OTHER -> ptr.val

\* the two bytes htons(v) leaves in a 16-bit field
htons(v) == <<(v \div 256) % 256, v % 256>>

\* net_pkt_vlan_tag, net_pkt_set_vlan_tag, net_pkt_set_vlan_priority: the
\* tag is the low 12 bits of the TCI, the priority its high 3 bits
net_pkt_vlan_tag(pkt) == pkt.vlan_tci % 4096
net_pkt_set_vlan_tag(pkt, tag) ==
  [pkt EXCEPT !.vlan_tci = ((@ \div 4096) * 4096) + (tag % 4096)]
net_pkt_set_vlan_priority(pkt, prio) ==
  [pkt EXCEPT !.vlan_tci = ((prio % 8) * 8192) + (@ % 8192)]

net_ipv4_broadcast_address == <<255, 255, 255, 255>>

net_is_ipv6_addr_mcast(addr) == addr[1] = 255

check_if_dst_is_broadcast_or_mcast(iface, pkt) ==
  IF pkt.ip_dst = net_ipv4_broadcast_address
  THEN [pkt |-> [pkt EXCEPT !.ll_dst = BcastPtr, !.ll_src = IfacePtr(iface)],
        res |-> TRUE]
  ELSE IF pkt.ip_dst[1] = 224
  THEN [pkt |-> [pkt EXCEPT !.frags[1].dst =
                              <<1, 0, 94, pkt.ip_dst[2] % 128,
                                pkt.ip_dst[3], pkt.ip_dst[4]>>,
                            !.ll_src = IfacePtr(iface)],
        res |-> TRUE]
  ELSE [pkt |-> pkt,
        res |-> FALSE]

\* the interface whose table entry set_vlan_tag looks for
EffectiveIface(iface, pkt) ==
  IF pkt.src_iface # NULL /\ pkt.src_iface # iface THEN pkt.src_iface
  ELSE iface

\* set_vlan_tag taking the first concrete tag of the table, whoever owns it
set_vlan_tag_anyiface(c, iface, pkt) ==
  IF net_pkt_vlan_tag(pkt) # NET_VLAN_TAG_UNSPEC
  THEN [pkt |-> pkt,
        verdict |-> "NET_OK"]
  ELSE LET i == FirstSlot({k \in Slots :
                             c.vlan[k].tag # NET_VLAN_TAG_UNSPEC})
       IN IF i # 0
          THEN [pkt |-> net_pkt_set_vlan_tag(pkt, c.vlan[i].tag),
                verdict |-> "NET_OK"]
          ELSE [pkt |-> pkt,
                verdict |-> "NET_DROP"]

set_vlan_tag(c, iface, pkt) ==
  IF net_pkt_vlan_tag(pkt) # NET_VLAN_TAG_UNSPEC
  THEN [pkt |-> pkt,
        verdict |-> "NET_OK"]
  ELSE LET eff == EffectiveIface(iface, pkt)
           i   == FirstSlot({k \in Slots :
                               ~(c.vlan[k].tag = NET_VLAN_TAG_UNSPEC
                                 \/ c.vlan[k].iface # eff)})
       IN IF i # 0
          THEN [pkt |-> net_pkt_set_vlan_tag(pkt, c.vlan[i].tag),
                verdict |-> "NET_OK"]
          ELSE [pkt |-> pkt,
                verdict |-> "NET_DROP"]

set_vlan_priority(pkt) == net_pkt_set_vlan_priority(pkt, pkt.priority)

\* net_eth_fill_header on fragment k of pkt; src and dst are pointers.  The
\* copy is skipped for a null pointer and for a pointer at the very field
\* written.
net_eth_fill_header(c, pkt, k, ptype, src, dst) ==
  LET vlan == net_eth_is_vlan_enabled(c, pkt.iface)
      size == IF vlan THEN SizeofEthVlanHdr ELSE SizeofEthHdr
      f    == pkt.frags[k]
      f1   == [f EXCEPT
                 !.dst = IF dst.kind # "null"
                            /\ ~(dst.kind = "hdr_dst" /\ k = 1)
                         THEN Deref(pkt, dst) ELSE @,
                 !.src = IF src.kind # "null"
                            /\ ~(src.kind = "hdr_src" /\ k = 1)
                         THEN Deref(pkt, src) ELSE @,
                 !.clobber = IF size > pkt.ll_reserve
                             THEN size - pkt.ll_reserve ELSE 0]
  IN [pkt EXCEPT !.frags[k] =
        IF vlan
        THEN [f1 EXCEPT !.w12 = htons(NET_ETH_PTYPE_VLAN),
                        !.w14 = htons(pkt.vlan_tci),
                        !.w16 = ptype]
        ELSE [f1 EXCEPT !.w12 = ptype]]

\* the fragment loop stopping after the first fragment
FillFrags_firstonly(c, pkt, k, ptype, log) ==
  IF k > Len(pkt.frags) THEN [pkt |-> pkt, log |-> log]
  ELSE [pkt |-> net_eth_fill_header(c, pkt, k, ptype, pkt.ll_src,
                                    pkt.ll_dst),
        log |-> Append(log, [pkt |-> pkt.id,
                             src |-> Deref(pkt, pkt.ll_src),
                             dst |-> Deref(pkt, pkt.ll_dst),
                             ptype |-> ptype,
                             e |-> "fill",
                             frag |-> k])]

\* the fragment loop of ethernet_send, from fragment k on; log collects the
\* calls of the header builder
RECURSIVE FillFrags(_, _, _, _, _)
FillFrags(c, pkt, k, ptype, log) ==
  IF k > Len(pkt.frags) THEN [pkt |-> pkt, log |-> log]
  ELSE FillFrags(c,
                 net_eth_fill_header(c, pkt, k, ptype, pkt.ll_src,
                                     pkt.ll_dst),
                 k + 1, ptype,
                 Append(log, [pkt |-> pkt.id,
                              src |-> Deref(pkt, pkt.ll_src),
                              dst |-> Deref(pkt, pkt.ll_dst),
                              ptype |-> ptype,
                              e |-> "fill",
                              frag |-> k]))

\* the header set-up queueing the packet before the VLAN route is looked up
SendSetupHdr_queuefirst(c, iface, pkt) ==
  LET ptype == IF pkt.family = "AF_INET" THEN htons(NET_ETH_PTYPE_IP)
               ELSE htons(NET_ETH_PTYPE_IPV6)
      vlan  == net_eth_is_vlan_enabled(c, iface)
      t     == set_vlan_tag(c, iface, pkt)
      pkt1  == IF vlan THEN set_vlan_priority(t.pkt) ELSE pkt
      f     == FillFrags(c, pkt1, 1, ptype, <<>>)
  IN IF vlan /\ t.verdict = "NET_DROP"
     THEN [pkt |-> t.pkt,
           verdict |-> "NET_DROP",
           site |-> "no_vlan_route",
           log |-> << [pkt |-> t.pkt.id,
                       e |-> "queue_tx"] >>]
     ELSE [pkt |-> f.pkt,
           verdict |-> "NET_OK",
           site |-> "sent",
           log |-> Append(f.log, [pkt |-> f.pkt.id,
                                  e |-> "queue_tx"])]

\* ethernet_send from the label setup_hdr on
SendSetupHdr(c, iface, pkt) ==
  LET ptype == IF pkt.family = "AF_INET" THEN htons(NET_ETH_PTYPE_IP)
               ELSE htons(NET_ETH_PTYPE_IPV6)
      vlan  == net_eth_is_vlan_enabled(c, iface)
      t     == set_vlan_tag(c, iface, pkt)
      pkt1  == IF vlan THEN set_vlan_priority(t.pkt) ELSE pkt
      f     == FillFrags(c, pkt1, 1, ptype, <<>>)
  IN IF vlan /\ t.verdict = "NET_DROP"
     THEN [pkt |-> t.pkt,
           verdict |-> "NET_DROP",
           site |-> "no_vlan_route",
           log |-> <<>>]
     ELSE [pkt |-> f.pkt,
           verdict |-> "NET_OK",
           site |-> "sent",
           log |-> Append(f.log, [pkt |-> f.pkt.id,
                                  e |-> "queue_tx"])]

\* What net_arp_prepare(pkt) returns: the null pointer, pkt itself with the link
\* header of every fragment filled from the cache entry, or an ARP request
\* that takes the place of pkt.
ResolvedAddr == <<2, 0, 0, 0, 0, 77>>

ArpFilled(pkt) ==
  [pkt EXCEPT !.frags =
     [k \in DOMAIN pkt.frags |->
        [pkt.frags[k] EXCEPT !.dst = ResolvedAddr,
                             !.src = net_if_get_link_addr(pkt.iface),
                             !.w12 = htons(NET_ETH_PTYPE_IP)]]]

ArpRequest(pkt) ==
  [pkt EXCEPT !.id = "arp",
              !.ll_src = NullPtr, !.ll_dst = NullPtr,
              !.frags = << [len |-> 28,
                            src |-> net_if_get_link_addr(pkt.iface),
                            dst |-> broadcast_eth_addr,
                            clobber |-> 0,
                            w12 |-> htons(NET_ETH_PTYPE_ARP),
                            w14 |-> <<0, 1>>,
                            w16 |-> <<8, 0>>] >>]

\* the null packet pointer
NullPkt == [id |-> "null"]

net_arp_prepare(pkt, arp) ==
  CASE arp = "same" -> ArpFilled(pkt)
    [] arp = "other" -> ArpRequest(pkt)
    [] OTHER -> NullPkt

\* the ARP branch keeping the original packet after it released it
SendArp_keep(iface, pkt, arp_pkt) ==
  IF arp_pkt.id = "null"
  THEN [pkt |-> pkt, verdict |-> "NET_DROP", site |-> "arp_null",
        log |-> <<>>]
  ELSE
  LET log1 == IF arp_pkt.id # pkt.id
              THEN << [pkt |-> pkt.id, e |-> "unref"] >> ELSE <<>>
      cur  == pkt
      cur1 == [cur EXCEPT !.ll_src = HdrSrcPtr, !.ll_dst = HdrDstPtr]
  IN [pkt |-> cur1, verdict |-> "NET_OK", site |-> "arp_sent",
      log |-> log1 \o << [pkt |-> cur.id, e |-> "write"],
                         [pkt |-> cur1.id, e |-> "queue_tx"] >>]

\* the ARP branch releasing the packet when net_arp_prepare returns nothing
SendArp_unref(iface, pkt, arp_pkt) ==
  IF arp_pkt.id = "null"
  THEN [pkt |-> pkt, verdict |-> "NET_DROP", site |-> "arp_null",
        log |-> << [pkt |-> pkt.id, e |-> "unref"] >>]
  ELSE
  LET log1 == IF arp_pkt.id # pkt.id
              THEN << [pkt |-> pkt.id, e |-> "unref"] >> ELSE <<>>
      cur  == arp_pkt
      cur1 == [cur EXCEPT !.ll_src = HdrSrcPtr, !.ll_dst = HdrDstPtr]
  IN [pkt |-> cur1, verdict |-> "NET_OK", site |-> "arp_sent",
      log |-> log1 \o << [pkt |-> cur.id, e |-> "write"],
                         [pkt |-> cur1.id, e |-> "queue_tx"] >>]

\* The ARP branch of ethernet_send, after net_arp_prepare has returned
\* arp_pkt.  Nothing returned: the packet is dropped.  Otherwise the
\* original is released if the packet returned is another one, the packet
\* held from then on is the one returned, its link addresses are pointed at
\* its header and it is queued.
SendArp(iface, pkt, arp_pkt) ==
  IF arp_pkt.id = "null"
  THEN [pkt |-> pkt, verdict |-> "NET_DROP", site |-> "arp_null",
        log |-> <<>>]
  ELSE
  LET log1 == IF arp_pkt.id # pkt.id
              THEN << [pkt |-> pkt.id, e |-> "unref"] >> ELSE <<>>
      cur  == arp_pkt
      cur1 == [cur EXCEPT !.ll_src = HdrSrcPtr, !.ll_dst = HdrDstPtr]
  IN [pkt |-> cur1, verdict |-> "NET_OK", site |-> "arp_sent",
      log |-> log1 \o << [pkt |-> cur.id, e |-> "write"],
                         [pkt |-> cur1.id, e |-> "queue_tx"] >>]

\* the non-IPv4 head of ethernet_send: a broadcast or multicast link source
\* is replaced by the interface's address, an unset link destination by the
\* IPv6 multicast mapping or the broadcast address
SendOther(pkt) ==
  LET s    == Deref(pkt, pkt.ll_src)
      pkt1 == IF net_eth_is_addr_broadcast(s) \/ net_eth_is_addr_multicast(s)
              THEN [pkt EXCEPT !.ll_src = IfacePtr(pkt.iface)]
              ELSE pkt
  IN IF pkt1.ll_dst.kind # "null" THEN pkt1
     ELSE IF pkt1.family = "AF_INET6" /\ net_is_ipv6_addr_mcast(pkt1.ip_dst)
     THEN [pkt1 EXCEPT !.frags[1].dst =
                         <<51, 51, pkt1.ip_dst[13], pkt1.ip_dst[14],
                           pkt1.ip_dst[15], pkt1.ip_dst[16]>>,
                       !.ll_dst = HdrDstPtr]
     ELSE [pkt1 EXCEPT !.ll_dst = BcastPtr]

\* ethernet_send(iface, pkt) on context c; arp is the outcome of
\* net_arp_prepare if it is called.  The result is the verdict, the return
\* statement taken, the packet the call holds at its end, and the log of
\* releases, header-builder calls, writes and hand-overs to the transmit
\* queue, in order.
ethernet_send(c, iface, pkt, arp) ==
  IF pkt.family = "AF_INET"
  THEN LET b == check_if_dst_is_broadcast_or_mcast(iface, pkt)
       IN IF b.res
          THEN SendSetupHdr(c, iface,
                 IF b.pkt.ll_dst.kind = "null"
                 THEN [b.pkt EXCEPT !.ll_dst = HdrDstPtr] ELSE b.pkt)
          ELSE SendArp(iface, pkt, net_arp_prepare(pkt, arp))
  ELSE SendSetupHdr(c, iface, SendOther(pkt))

(***************************************************************************)
(* Actions of the VLAN/reserve API                                         *)
(***************************************************************************)

Init ==
  /\ ctx = [d \in Contexts |-> ZeroContext]
  /\ everEnabled = [d \in Contexts |-> FALSE]
  /\ initCalls = [i \in Ifaces |-> 0]
  /\ last = NoCall
  /\ rx = NoRx
  /\ tx = NoTx
  /\ ul = NoUl

\* does a call of op(iface, tag) repeat a successful call just before it
Again(op, iface, tag) ==
  last.op = op /\ last.iface = iface /\ last.tag = tag /\ last.ret = "0"

EthernetInit(iface) ==
  LET d == net_if_l2_data(iface) IN
  /\ IsEthernetL2(iface)
  /\ ctx' = [ctx EXCEPT ![d] = ethernet_init_ctx(ctx[d], iface)]
  /\ last' = [NoCall EXCEPT !.op = "init", !.iface = iface, !.ret = "void",
                            !.pre = ctx[d]]
  /\ rx' = NoRx /\ tx' = NoTx /\ ul' = NoUl
  /\ initCalls' = [initCalls EXCEPT ![iface] = IF @ < 2 THEN @ + 1 ELSE @]
  /\ UNCHANGED everEnabled

VlanEnable(iface, tag) ==
  LET d == net_if_l2_data(iface)
      r == net_eth_vlan_enable_ret(ctx[d], iface, tag) IN
  /\ ctx' = [ctx EXCEPT ![d] = net_eth_vlan_enable_ctx(ctx[d], iface, tag)]
  /\ everEnabled' = [everEnabled EXCEPT ![d] = @ \/ r = "0"]
  /\ last' = [NoCall EXCEPT !.op = "enable", !.iface = iface, !.tag = tag,
                            !.ret = r,
                            !.hook = (r = "0" /\ HasVlanSetup(iface)),
                            !.again = Again("enable", iface, tag),
                            !.pre = ctx[d]]
  /\ rx' = NoRx /\ tx' = NoTx /\ ul' = NoUl
  /\ UNCHANGED initCalls

VlanDisable(iface, tag) ==
  LET d == net_if_l2_data(iface)
      r == net_eth_vlan_disable_ret(ctx[d], iface, tag) IN
  /\ ctx' = [ctx EXCEPT ![d] = net_eth_vlan_disable_ctx(ctx[d], iface, tag)]
  /\ last' = [NoCall EXCEPT !.op = "disable", !.iface = iface, !.tag = tag,
                            !.ret = r,
                            !.hook = (r = "0" /\ HasVlanSetup(iface)),
                            !.again = Again("disable", iface, tag),
                            !.pre = ctx[d]]
  /\ rx' = NoRx /\ tx' = NoTx /\ ul' = NoUl
  /\ UNCHANGED <<everEnabled, initCalls>>

Reserve(iface) ==
  LET d == net_if_l2_data(iface) IN
  /\ IsEthernetL2(iface)
  /\ last' = [NoCall EXCEPT !.op = "reserve", !.iface = iface,
                            !.ret = "size",
                            !.size = ethernet_reserve(ctx[d], iface),
                            !.pre = ctx[d]]
  /\ rx' = NoRx /\ tx' = NoTx /\ ul' = NoUl
  /\ UNCHANGED <<ctx, everEnabled, initCalls>>

GetVlanIface(iface, tag) ==
  LET d == net_if_l2_data(iface) IN
  /\ last' = [NoCall EXCEPT !.op = "get_vlan_iface", !.iface = iface,
                            !.tag = tag, !.ret = "iface",
                            !.pre = ctx[d],
                            !.found = net_eth_get_vlan_iface(ctx[d], tag)]
  /\ rx' = NoRx /\ tx' = NoTx /\ ul' = NoUl
  /\ UNCHANGED <<ctx, everEnabled, initCalls>>

(***************************************************************************)
(* Received frames                                                         *)
(***************************************************************************)

\* The first bytes of the frames received, from offset 12 on, as the byte
\* pairs at offsets 12, 14, 16, 18, 20 and 22.  An untagged frame has its
\* type at 12, the IPv4 total length at 16 and the IPv6 payload length at
\* 18; a tagged frame has 0x8100 at 12, the TCI at 14, its type at 16, the
\* IPv4 total length at 20 and the IPv6 payload length at 22.
RxUntagged ==
  { << <<8, 0>>, <<69, 0>>, <<0, 20>>, <<0, 0>>, <<0, 0>>, <<0, 0>> >>,
    << <<8, 0>>, <<69, 0>>, <<0, 60>>, <<0, 0>>, <<0, 0>>, <<0, 0>> >>,
    << <<8, 6>>, <<0, 1>>, <<8, 0>>, <<6, 4>>, <<0, 1>>, <<2, 0>> >>,
    << <<134, 221>>, <<96, 0>>, <<0, 0>>, <<0, 0>>, <<58, 255>>, <<0, 0>> >>,
    << <<134, 221>>, <<96, 0>>, <<0, 0>>, <<0, 60>>, <<58, 255>>, <<0, 0>> >>,
    << <<136, 204>>, <<2, 7>>, <<4, 0>>, <<0, 0>>, <<0, 0>>, <<0, 0>> >> }

RxTagged ==
  { << <<129, 0>>, w14, w16, <<69, 0>>, tail[1], tail[2] >> :
      w14 \in {<<32, 7>>, <<160, 100>>},
      w16 \in {<<8, 0>>, <<134, 221>>, <<136, 204>>},
      tail \in { << <<0, 20>>, <<0, 0>> >>, << <<0, 60>>, <<255, 255>> >> } }

RxHeads == RxUntagged \cup RxTagged

\* destinations: the addresses of interfaces 1 and 2, broadcast, multicast
RxDsts == {net_if_get_link_addr(1), net_if_get_link_addr(2),
           broadcast_eth_addr, <<51, 51, 0, 0, 0, 1>>}

\* fragment chains of a received frame; the first holds the link header
RxFrags == {<<60>>, <<30, 30>>}

\* interfaces frames arrive on
RxIfaces == {1, 2}

RxPkt(dst, head, frags) ==
  [w |-> [k \in {12, 14, 16, 18, 20, 22} |-> head[(k - 10) \div 2]],
   data |-> 0,
   frags |-> frags,
   family |-> "AF_UNSPEC",
   vlan_tci |-> 0,
   ll_src |-> <<>>,
   src |-> <<2, 0, 0, 0, 0, 9>>,
   ll_dst |-> <<>>,
   dst |-> dst,
   ll_reserve |-> 0]

\* what net_arp_input may return for a frame: it is called for ARP frames
\* only
ArpInputVerdicts(head) ==
  IF head[1] = <<8, 6>> THEN {"NET_OK", "NET_DROP"} ELSE {"NET_OK"}

\* the network core hands a received frame to the L2.  One packet call is
\* looked at at a time: its record is dropped before the next call.
Recv(iface, pkt, arp) ==
  LET d == net_if_l2_data(iface)
      r == ethernet_recv(ctx[d], iface, pkt, arp) IN
  /\ rx = NoRx /\ tx = NoTx
  /\ rx' = [iface |-> iface,
            op |-> "recv",
            pkt |-> r.pkt,
            verdict |-> r.verdict,
            site |-> r.site,
            pulled |-> r.pulled,
            unref |-> r.unref,
            in |-> pkt]
  /\ UNCHANGED <<ctx, everEnabled, initCalls, last, tx, ul>>

(***************************************************************************)
(* Packets sent                                                            *)
(***************************************************************************)

Ip6Mcast == <<255, 2, 0, 0, 0, 0, 0, 0, 0, 0, 0, 1, 255, 0, 18, 52>>
Ip6Ucast == <<32, 1, 13, 184, 0, 0, 0, 0, 0, 0, 0, 0, 0, 0, 0, 1>>
StaleAddr == <<2, 0, 0, 0, 0, 55>>

\* family, network-layer destination, link source and destination pointers
\* on entry, and what net_arp_prepare does if it is called
TxCases ==
  {[family |-> "AF_INET",
    arp |-> "null",
    ll_src |-> "iface",
    ll_dst |-> NullPtr,
    ip_dst |-> net_ipv4_broadcast_address]}
  \cup
  {[family |-> "AF_INET",
    arp |-> "null",
    ll_src |-> "iface",
    ll_dst |-> ll,
    ip_dst |-> ip] :
     ip \in {<<224, 1, 2, 3>>, <<224, 200, 2, 3>>},
     ll \in {NullPtr, ExtPtr(StaleAddr)}}
  \cup
  {[family |-> "AF_INET",
    arp |-> a,
    ll_src |-> "iface",
    ll_dst |-> NullPtr,
    ip_dst |-> <<10, 0, 0, 1>>] : a \in {"null", "same", "other"}}
  \cup
  {[family |-> "AF_INET6",
    arp |-> "null",
    ll_src |-> ls,
    ll_dst |-> ll,
    ip_dst |-> ip] :
     ip \in {Ip6Mcast, Ip6Ucast}, ls \in {"iface", "bcast"},
     ll \in {NullPtr, ExtPtr(StaleAddr)}}

\* fragment chains of a packet to send
MaxTxFrags == 2
TxFrags == {[k \in 1..n |-> 30] : n \in 1..MaxTxFrags}

TxIfaces == {1, 2}

\* the priority of the packets sent
TxPriority == 5

TxPkt(iface, cs, tag, src_iface, reserve, lens) ==
  [iface |-> iface,
   frags |-> [k \in DOMAIN lens |->
                [len |-> lens[k],
                 src |-> <<0, 0, 0, 0, 0, 0>>,
                 dst |-> <<0, 0, 0, 0, 0, 0>>,
                 clobber |-> 0,
                 w12 |-> <<0, 0>>,
                 w14 |-> <<0, 0>>,
                 w16 |-> <<0, 0>>]],
   family |-> cs.family,
   vlan_tci |-> tag,
   ll_src |-> IF cs.ll_src = "iface" THEN IfacePtr(iface)
              ELSE ExtPtr(broadcast_eth_addr),
   ll_dst |-> cs.ll_dst,
   ll_reserve |-> reserve,
   ip_dst |-> cs.ip_dst,
   src_iface |-> src_iface,
   priority |-> TxPriority,
   id |-> "orig"]

\* the interface layer allocates a packet to send on iface, the headroom of
\* its fragments sized by the reserve hook
PktAlloc(iface) ==
  LET d == net_if_l2_data(iface) IN
  /\ rx = NoRx /\ tx = NoTx
  /\ tx' = [iface |-> iface,
            op |-> "alloc",
            ll_reserve |-> ethernet_reserve(ctx[d], iface)]
  /\ UNCHANGED <<ctx, everEnabled, initCalls, last, rx, ul>>

\* the interface layer hands the packet allocated to the L2 for sending
Send(iface, pkt, arp) ==
  LET d == net_if_l2_data(iface)
      r == ethernet_send(ctx[d], iface, pkt, arp) IN
  /\ tx.op = "alloc" /\ tx.iface = iface
  /\ pkt.ll_reserve = tx.ll_reserve
  /\ tx' = [iface |-> iface,
            op |-> "send",
            pkt |-> r.pkt,
            arp |-> arp,
            verdict |-> r.verdict,
            site |-> r.site,
            log |-> r.log,
            in |-> pkt]
  /\ UNCHANGED <<ctx, everEnabled, initCalls, last, rx, ul>>

\* the core is done with the packet call recorded, or the packet allocated
\* is released unsent: the record is dropped
PktReturn ==
  /\ rx # NoRx \/ tx # NoTx
  /\ rx' = NoRx /\ tx' = NoTx
  /\ UNCHANGED <<ctx, everEnabled, initCalls, last, ul>>

\* the VLAN API called between packet calls, or between the allocation of a
\* packet and its sending; the call is not recorded, in last or in initCalls
PktInit(iface) ==
  LET d == net_if_l2_data(iface) IN
  /\ rx = NoRx /\ tx.op \in {"none", "alloc"}
  /\ IsEthernetL2(iface)
  /\ ctx' = [ctx EXCEPT ![d] = ethernet_init_ctx(ctx[d], iface)]
  /\ UNCHANGED <<everEnabled, initCalls, last, rx, tx, ul>>

PktVlanEnable(iface, tag) ==
  LET d == net_if_l2_data(iface) IN
  /\ rx = NoRx /\ tx.op \in {"none", "alloc"}
  /\ ctx' = [ctx EXCEPT ![d] = net_eth_vlan_enable_ctx(ctx[d], iface, tag)]
  /\ everEnabled' = [everEnabled EXCEPT ![d] =
                       @ \/ net_eth_vlan_enable_ret(ctx[d], iface, tag) = "0"]
  /\ UNCHANGED <<initCalls, last, rx, tx, ul>>

PktVlanDisable(iface, tag) ==
  LET d == net_if_l2_data(iface) IN
  /\ rx = NoRx /\ tx.op \in {"none", "alloc"}
  /\ ctx' = [ctx EXCEPT ![d] = net_eth_vlan_disable_ctx(ctx[d], iface, tag)]
  /\ UNCHANGED <<everEnabled, initCalls, last, rx, tx, ul>>

(***************************************************************************)
(* Packets of the padding fix-up                                           *)
(***************************************************************************)

MaxFrags == 3
UlFragLens == {0, 10, 25, 60}
UlFrags == UNION {[1..n -> UlFragLens] : n \in 1..MaxFrags}

\* the two bytes of the length field of the IP header
UlLenFields == {<<0, 0>>, <<0, 5>>, <<0, 20>>, <<0, 45>>, <<0, 46>>,
                <<0, 60>>, <<255, 216>>, <<255, 255>>}

\* a packet whose IP header is at the data start of its first fragment
UlPkt(family, lenfield, frags) ==
  [w |-> [k \in {16, 18} |-> lenfield],
   data |-> SizeofEthHdr,
   frags |-> frags,
   family |-> family]

\* how many times the fix-up is applied to a packet
MaxApply == 3

InitLen ==
  /\ ctx = [d \in Contexts |-> ZeroContext]
  /\ everEnabled = [d \in Contexts |-> FALSE]
  /\ initCalls = [i \in Ifaces |-> 0]
  /\ last = NoCall
  /\ rx = NoRx
  /\ tx = NoTx
  /\ ul \in {[n |-> 0,
              pkt |-> p,
              in |-> p,
              once |-> p] :
               p \in {UlPkt(f, l, fr) : f \in {"AF_INET", "AF_INET6"},
                                        l \in UlLenFields, fr \in UlFrags}}

\* ethernet_update_length applied to the packet once more; once keeps the
\* packet the first application left
UpdateLength ==
  /\ ul.n < MaxApply
  /\ ul' = [ul EXCEPT !.n = @ + 1,
                      !.pkt = ethernet_update_length(ul.pkt),
                      !.once = IF ul.n = 0
                               THEN ethernet_update_length(ul.pkt) ELSE @]
  /\ UNCHANGED <<ctx, everEnabled, initCalls, last, rx, tx>>

(***************************************************************************)
(* Specifications                                                          *)
(***************************************************************************)

\* the VLAN API and the reserve hook
Next ==
  \/ \E iface \in Ifaces : EthernetInit(iface)
  \/ \E iface \in Ifaces, tag \in TagArgs : VlanEnable(iface, tag)
  \/ \E iface \in Ifaces, tag \in TagArgs : VlanDisable(iface, tag)
  \/ \E iface \in Ifaces : Reserve(iface)
  \/ \E iface \in Ifaces, tag \in TagArgs : GetVlanIface(iface, tag)

Spec == Init /\ [][Next]_vars

\* frames received and packets sent while the VLAN API is called
NextPkt ==
  \/ \E iface \in Ifaces : PktInit(iface)
  \/ \E iface \in Ifaces, tag \in TagArgs : PktVlanEnable(iface, tag)
  \/ \E iface \in Ifaces, tag \in TagArgs : PktVlanDisable(iface, tag)
  \/ \E iface \in RxIfaces, dst \in RxDsts, head \in RxHeads,
        frags \in RxFrags :
       \E arp \in ArpInputVerdicts(head) :
         Recv(iface, RxPkt(dst, head, frags), arp)
  \/ \E iface \in TxIfaces : PktAlloc(iface)
  \/ \E iface \in TxIfaces, cs \in TxCases,
        tag \in {NET_VLAN_TAG_UNSPEC, 5}, src_iface \in {NULL, 2},
        reserve \in {SizeofEthHdr, SizeofEthVlanHdr}, lens \in TxFrags :
       Send(iface, TxPkt(iface, cs, tag, src_iface, reserve, lens), cs.arp)
  \/ PktReturn

SpecPkt == Init /\ [][NextPkt]_vars

\* the padding fix-up applied to a packet, repeatedly
NextLen == UpdateLength

SpecLen == InitLen /\ [][NextLen]_vars

(***************************************************************************)
(* Properties                                                              *)
(***************************************************************************)

\* C1: an enable(iface, t) that repeats the successful enable(iface, t) just
\* before it returns -EALREADY, and a disable(iface, t) that repeats the
\* successful disable(iface, t) just before it returns -ESRCH.
C1_RepeatedCallFails ==
  /\ (last.op = "enable" /\ last.again) => last.ret = "-EALREADY"
  /\ (last.op = "disable" /\ last.again) => last.ret = "-ESRCH"

\* a disable repeated right after it succeeded, on a context on which an
\* enable has succeeded
C1_Witness ==
  /\ last.op = "disable" /\ last.again /\ last.ret = "-ESRCH"
  /\ everEnabled[net_if_l2_data(last.iface)]

\* C2: as long as no enable call has succeeded on the context of an
\* Ethernet interface, reserve returns the plain header size for it; in the
\* state a successful enable(iface, tag) leaves, reserve(iface) returns the
\* VLAN header size.
C2_ReserveSize ==
  /\ \A iface \in {i \in Ifaces : IsEthernetL2(i)} :
       ~everEnabled[net_if_l2_data(iface)]
         => ethernet_reserve(ctx[net_if_l2_data(iface)], iface) = SizeofEthHdr
  /\ (last.op = "reserve" /\ ~everEnabled[net_if_l2_data(last.iface)])
       => last.size = SizeofEthHdr
  /\ (last.op = "enable" /\ last.ret = "0")
       => ethernet_reserve(ctx[net_if_l2_data(last.iface)], last.iface)
            = SizeofEthVlanHdr

\* a successful enable that leaves the count below the table capacity, so
\* that the bit of the interface decides
C2_Witness ==
  /\ last.op = "enable" /\ last.ret = "0"
  /\ ctx[net_if_l2_data(last.iface)].vlan_enabled < NET_VLAN_MAX_COUNT

\* C3: enable(iface, tag) returns -EINVAL if the L2 of iface is not
\* Ethernet, else -EPERM if the context is not initialized, else -EBADF if
\* the tag is the unspecified one, else -EALREADY if an entry (iface, tag)
\* exists, else -ENOSPC if no entry of iface holds the unspecified tag, and
\* 0 otherwise.
C3_EnableErrorPrecedence ==
  last.op = "enable" =>
    last.ret =
      IF ~IsEthernetL2(last.iface) THEN "-EINVAL"
      ELSE IF ~last.pre.is_init THEN "-EPERM"
      ELSE IF last.tag = NET_VLAN_TAG_UNSPEC THEN "-EBADF"
      ELSE IF \E i \in Slots :
                last.pre.vlan[i] = [iface |-> last.iface, tag |-> last.tag]
           THEN "-EALREADY"
      ELSE IF ~\E i \in Slots :
                 last.pre.vlan[i] = [iface |-> last.iface,
                                     tag |-> NET_VLAN_TAG_UNSPEC]
           THEN "-ENOSPC"
      ELSE "0"

\* an enable for which an entry exists and no free slot is left: the
\* earlier test decides
C3_Witness ==
  /\ last.op = "enable" /\ last.ret = "-EALREADY"
  /\ ~\E i \in Slots :
        last.pre.vlan[i] = [iface |-> last.iface,
                            tag |-> NET_VLAN_TAG_UNSPEC]

\* C4: an enable or disable call returns 0 only on a context whose
\* initialized flag was set when the call began.
C4_NoSuccessBeforeInit ==
  (last.op \in {"enable", "disable"} /\ last.ret = "0") => last.pre.is_init

\* a disable of tag 0, the tag value of the zeroed table, on an Ethernet
\* interface whose context is not initialized
C4_Witness ==
  /\ last.op = "disable" /\ ~last.pre.is_init /\ last.tag = 0
  /\ IsEthernetL2(last.iface) /\ last.ret = "-ESRCH"

\* C5: a received frame whose type, after VLAN unwrapping, is IPv4, ARP or
\* IPv6 and whose destination is neither broadcast nor multicast nor the
\* address of the receiving interface is dropped, and the data start and
\* the length of its first fragment are as they were.
C5_NotForMeDropped ==
  rx.op = "recv" =>
    LET c    == ctx[net_if_l2_data(rx.iface)]
        t12  == rx.in.w[12][1] * 256 + rx.in.w[12][2]
        t16  == rx.in.w[16][1] * 256 + rx.in.w[16][2]
        type == IF net_eth_is_vlan_enabled(c, rx.iface)
                   /\ t12 = NET_ETH_PTYPE_VLAN
                THEN t16 ELSE t12
    IN (/\ type \in {NET_ETH_PTYPE_IP, NET_ETH_PTYPE_ARP, NET_ETH_PTYPE_IPV6}
        /\ ~net_eth_is_addr_broadcast(rx.in.dst)
        /\ ~net_eth_is_addr_multicast(rx.in.dst)
        /\ rx.in.dst # net_if_get_link_addr(rx.iface))
       => /\ rx.verdict = "NET_DROP"
          /\ rx.pkt.data = rx.in.data
          /\ rx.pkt.frags = rx.in.frags

\* a tagged frame of a known inner type, for another interface, dropped on
\* an interface with VLAN enabled
C5_Witness ==
  /\ rx.op = "recv" /\ rx.site = "not_for_me"
  /\ rx.in.w[12] = <<129, 0>>
  /\ rx.in.dst # net_if_get_link_addr(rx.iface)

\* C6: a received frame whose type at the plain offset is IPv4 and whose
\* destination is the address of the receiving interface is continued, its
\* first fragment is advanced by the plain header length, which is also
\* the link-header reserve recorded, VLAN enabled or not.
C6_OwnIpv4Continues ==
  (/\ rx.op = "recv"
   /\ rx.in.w[12] = <<8, 0>>
   /\ rx.in.dst = net_if_get_link_addr(rx.iface))
  => /\ rx.verdict = "NET_CONTINUE"
     /\ rx.pulled = SizeofEthHdr
     /\ rx.pkt.data = rx.in.data + SizeofEthHdr
     /\ rx.pkt.ll_reserve = SizeofEthHdr
     /\ rx.pkt.frags[1] <= rx.in.frags[1] - SizeofEthHdr

\* such a frame received on an interface with VLAN enabled
C6_Witness ==
  /\ rx.op = "recv"
  /\ rx.in.w[12] = <<8, 0>>
  /\ rx.in.dst = net_if_get_link_addr(rx.iface)
  /\ net_eth_is_vlan_enabled(ctx[net_if_l2_data(rx.iface)], rx.iface)
  /\ rx.verdict = "NET_CONTINUE"

\* C7: a broadcast frame with the VLAN TPID as outer type and IPv6 as inner
\* type, received on an interface with VLAN enabled, is continued, the TCI
\* recorded on the packet is the TCI field of the frame and the VLAN header
\* size is stripped; received on an interface without VLAN enabled it is
\* dropped for its unknown type.
C7_TaggedBroadcast ==
  (/\ rx.op = "recv"
   /\ rx.in.w[12] = <<129, 0>>
   /\ rx.in.w[16] = <<134, 221>>
   /\ rx.in.dst = broadcast_eth_addr)
  => IF net_eth_is_vlan_enabled(ctx[net_if_l2_data(rx.iface)], rx.iface)
     THEN /\ rx.verdict = "NET_CONTINUE"
          /\ rx.pkt.vlan_tci = rx.in.w[14][1] * 256 + rx.in.w[14][2]
          /\ rx.pkt.vlan_tci % 4096 = (rx.in.w[14][1] % 16) * 256
                                       + rx.in.w[14][2]
          /\ rx.pkt.vlan_tci \div 8192 = rx.in.w[14][1] \div 32
          /\ rx.pulled = SizeofEthVlanHdr
          /\ rx.pkt.data = rx.in.data + SizeofEthVlanHdr
          /\ rx.pkt.ll_reserve = SizeofEthVlanHdr
     ELSE /\ rx.verdict = "NET_DROP"
          /\ rx.site = "unknown_type"
          /\ rx.pkt.data = rx.in.data

\* such a frame continued, with a TCI that is not zero
C7_Witness ==
  /\ rx.op = "recv"
  /\ rx.in.w[12] = <<129, 0>>
  /\ rx.in.w[16] = <<134, 221>>
  /\ rx.in.dst = broadcast_eth_addr
  /\ rx.verdict = "NET_CONTINUE"
  /\ rx.pkt.vlan_tci = 160 * 256 + 100

\* C8: on the send of an IPv4 packet that is neither broadcast nor 224.x
\* multicast for which net_arp_prepare returns another packet, the original
\* is released exactly once, the packet handed to the transmit queue is the
\* substitute and it is handed over once, the header builder is not called,
\* send returns NET_OK, and nothing touches the original after its release.
C8_ArpSubstitute ==
  (/\ tx.op = "send"
   /\ tx.in.family = "AF_INET"
   /\ tx.in.ip_dst # <<255, 255, 255, 255>>
   /\ tx.in.ip_dst[1] # 224
   /\ tx.arp = "other")
  => /\ tx.verdict = "NET_OK"
     /\ Cardinality({i \in DOMAIN tx.log :
                       tx.log[i] = [pkt |-> tx.in.id, e |-> "unref"]}) = 1
     /\ Cardinality({i \in DOMAIN tx.log : tx.log[i].e = "queue_tx"}) = 1
     /\ \A i \in DOMAIN tx.log :
          /\ tx.log[i].e = "queue_tx" => tx.log[i].pkt = "arp"
          /\ tx.log[i].e # "fill"
          /\ tx.log[i].e = "unref" =>
               \A j \in DOMAIN tx.log : j > i => tx.log[j].pkt # tx.in.id
     /\ tx.pkt.id = "arp"

\* such a send
C8_Witness ==
  /\ tx.op = "send"
  /\ tx.in.family = "AF_INET"
  /\ tx.in.ip_dst = <<10, 0, 0, 1>>
  /\ tx.arp = "other"
  /\ tx.verdict = "NET_OK"

\* C9: when recv returns NET_DROP for an unknown type or a frame not for
\* the interface, or send returns NET_DROP, the call has released no
\* packet.
C9_DropReleasesNothing ==
  /\ (rx.op = "recv" /\ rx.verdict = "NET_DROP"
      /\ rx.site \in {"unknown_type", "not_for_me"})
       => rx.unref = <<>>
  /\ (tx.op = "send" /\ tx.verdict = "NET_DROP")
       => \A i \in DOMAIN tx.log : tx.log[i].e # "unref"

\* a send dropped because net_arp_prepare returned the null pointer
C9_Witness ==
  tx.op = "send" /\ tx.verdict = "NET_DROP" /\ tx.site = "arp_null"

\* C10: the padding fix-up applied twice or more leaves the packet, and so
\* every fragment length, as one application left it.
C10_UpdateLengthIdempotent ==
  ul.n >= 2 => ul.pkt = ul.once

\* a packet of several fragments that the first application shortened,
\* after the second application
C10_Witness ==
  /\ ul.n = 2
  /\ Len(ul.in.frags) > 1
  /\ ul.once.frags # ul.in.frags

\* C11: on the send of an IPv4 packet with destination 224.b.c.d that is
\* queued, the header of every fragment has the destination
\* 01:00:5e:(b mod 128):c:d and the interface's own address as source,
\* whatever link destination the packet carried on entry.
C11_MulticastHeader ==
  (/\ tx.op = "send"
   /\ tx.in.family = "AF_INET"
   /\ tx.in.ip_dst[1] = 224
   /\ tx.verdict = "NET_OK")
  => \A k \in DOMAIN tx.pkt.frags :
       /\ tx.pkt.frags[k].dst = <<1, 0, 94, tx.in.ip_dst[2] % 128,
                                  tx.in.ip_dst[3], tx.in.ip_dst[4]>>
       /\ tx.pkt.frags[k].src = net_if_get_link_addr(tx.iface)

\* a packet for 224.200.2.3 that carried a link destination on entry,
\* queued with that address in the header of its first fragment
C11_Witness ==
  /\ tx.op = "send"
  /\ tx.in.ip_dst = <<224, 200, 2, 3>>
  /\ tx.in.ll_dst = ExtPtr(StaleAddr)
  /\ tx.verdict = "NET_OK"
  /\ tx.pkt.frags[1].dst = StaleAddr

\* the part of C11 that the code keeps: with no link destination set on
\* entry, every fragment of the queued packet has the derived address
C11_MulticastHeaderUnset ==
  (/\ tx.op = "send"
   /\ tx.in.family = "AF_INET"
   /\ tx.in.ip_dst[1] = 224
   /\ tx.in.ll_dst = NullPtr
   /\ tx.verdict = "NET_OK")
  => \A k \in DOMAIN tx.pkt.frags :
       /\ tx.pkt.frags[k].dst = <<1, 0, 94, tx.in.ip_dst[2] % 128,
                                  tx.in.ip_dst[3], tx.in.ip_dst[4]>>
       /\ tx.pkt.frags[k].src = net_if_get_link_addr(tx.iface)

\* the table entries of iface that hold a concrete tag
ConcreteSlots(c, iface) ==
  {i \in Slots : c.vlan[i].iface = iface
                 /\ c.vlan[i].tag # NET_VLAN_TAG_UNSPEC}

\* C12 as stated: in every state that init, enable and disable calls reach,
\* each interface has at most one table entry with a concrete tag.
C12_OneConcreteTag ==
  \A iface \in Ifaces :
    Cardinality(ConcreteSlots(ctx[net_if_l2_data(iface)], iface)) <= 1

\* C12 amended: in every state that init, enable and disable calls reach,
\* each interface for which ethernet_init has been called at most once has
\* at most one table entry with a concrete tag.
C12_OneConcreteTagInitOnce ==
  \A iface \in Ifaces :
    initCalls[iface] <= 1
      => Cardinality(ConcreteSlots(ctx[net_if_l2_data(iface)], iface)) <= 1

\* an interface initialised once that holds a concrete tag and was refused
\* a second one, while another slot of the table is still unclaimed
C12_Witness ==
  /\ last.op = "enable" /\ last.ret = "-ENOSPC"
  /\ initCalls[last.iface] = 1
  /\ ConcreteSlots(ctx[net_if_l2_data(last.iface)], last.iface) # {}
  /\ \E i \in Slots : ctx[net_if_l2_data(last.iface)].vlan[i].iface = NULL

\* the interfaces that hold a concrete tag in the table of context c
TaggedIfaces(c) == {iface \in Ifaces : ConcreteSlots(c, iface) # {}}

\* C13 as stated: in every state that init, enable and disable calls reach,
\* the enabled count of a context is the number of interfaces that hold a
\* concrete tag in its table, and lies in 0..capacity.
C13_CountIsTaggedIfaces ==
  \A d \in Contexts :
    /\ ctx[d].vlan_enabled = Cardinality(TaggedIfaces(ctx[d]))
    /\ ctx[d].vlan_enabled \in 0..NET_VLAN_MAX_COUNT

\* C13 amended: the enabled count of a context always lies in 0..capacity,
\* and it is the number of interfaces that hold a concrete tag in its table
\* in every state in which ethernet_init has been called at most once for
\* each interface of the context.
C13_CountIsTaggedIfacesInitOnce ==
  \A d \in Contexts :
    /\ ctx[d].vlan_enabled \in 0..NET_VLAN_MAX_COUNT
    /\ (\A iface \in Ifaces : net_if_l2_data(iface) = d
                               => initCalls[iface] <= 1)
         => ctx[d].vlan_enabled = Cardinality(TaggedIfaces(ctx[d]))

\* a successful disable that leaves the count at 1, for the tag another
\* interface still holds, every interface initialised once
C13_Witness ==
  /\ last.op = "disable" /\ last.ret = "0"
  /\ \A iface \in Ifaces : initCalls[iface] <= 1
  /\ ctx[net_if_l2_data(last.iface)].vlan_enabled = 1
  /\ last.pre.vlan_enabled = NET_VLAN_MAX_COUNT

\* is the bit of iface set in the enabled-interfaces bitmask of context c
BitSet(c, iface) == net_if_get_by_iface(iface) \in c.interfaces

\* C14 as stated: in every state that init, enable and disable calls reach,
\* net_eth_is_vlan_enabled is true exactly when the count is the capacity
\* or the bit of the interface is set, no bit is set while the count is 0,
\* and the result is true for every interface that holds a concrete tag.
C14_IsVlanEnabled ==
  \A iface \in Ifaces :
    LET c == ctx[net_if_l2_data(iface)] IN
    /\ net_eth_is_vlan_enabled(c, iface)
         <=> (c.vlan_enabled = NET_VLAN_MAX_COUNT \/ BitSet(c, iface))
    /\ c.vlan_enabled = 0 => c.interfaces = {}
    /\ ConcreteSlots(c, iface) # {} => net_eth_is_vlan_enabled(c, iface)

\* C14 amended: the first two parts as stated; the result is true for every
\* interface that holds a concrete tag and for which ethernet_init has been
\* called at most once.
C14_IsVlanEnabledInitOnce ==
  \A iface \in Ifaces :
    LET c == ctx[net_if_l2_data(iface)] IN
    /\ net_eth_is_vlan_enabled(c, iface)
         <=> (c.vlan_enabled = NET_VLAN_MAX_COUNT \/ BitSet(c, iface))
    /\ c.vlan_enabled = 0 => c.interfaces = {}
    /\ (ConcreteSlots(c, iface) # {} /\ initCalls[iface] <= 1)
         => net_eth_is_vlan_enabled(c, iface)

\* after a successful disable the count is below the capacity and not 0:
\* the bits decide, the interface disabled is reported as not enabled and
\* another one, initialised once and holding a tag, as enabled
C14_Witness ==
  /\ last.op = "disable" /\ last.ret = "0"
  /\ LET c == ctx[net_if_l2_data(last.iface)] IN
     /\ c.vlan_enabled \notin {0, NET_VLAN_MAX_COUNT}
     /\ ~net_eth_is_vlan_enabled(c, last.iface)
     /\ \E iface \in Ifaces :
          /\ initCalls[iface] = 1
          /\ ConcreteSlots(c, iface) # {}
          /\ net_eth_is_vlan_enabled(c, iface)

\* the slots of context c that an interface has claimed
ClaimedSlots(c) == {i \in Slots : c.vlan[i].iface # NULL}

\* C15 as stated: net_eth_get_vlan_iface returns the interface bound to the
\* tag when a slot holds the tag, otherwise the interface of the first slot
\* whose tag is unspecified, and the null pointer only if no slot of the
\* table has been claimed.
C15_Lookup ==
  last.op = "get_vlan_iface" =>
    LET c == ctx[net_if_l2_data(last.iface)]
        Bound == {i \in ClaimedSlots(c) : c.vlan[i].tag = last.tag}
        Unspec == {i \in ClaimedSlots(c) :
                     c.vlan[i].tag = NET_VLAN_TAG_UNSPEC}
    IN /\ Bound # {} => last.found \in {c.vlan[i].iface : i \in Bound}
       /\ (Bound = {} /\ Unspec # {})
            => last.found = c.vlan[FirstSlot(Unspec)].iface
       /\ last.found = NULL => ClaimedSlots(c) = {}

\* C15 amended: the result is the interface recorded in the first slot whose
\* tag is concrete and equals the tag looked up, claimed or not (a slot never
\* claimed holds tag 0 and no interface); without such a slot it is the
\* interface of the first claimed slot whose tag is unspecified, and the
\* null pointer when there is no such slot either.
C15_LookupFirstMatch ==
  last.op = "get_vlan_iface" =>
    LET c == ctx[net_if_l2_data(last.iface)]
        Match == {i \in Slots : /\ c.vlan[i].tag = last.tag
                                /\ last.tag # NET_VLAN_TAG_UNSPEC}
        Unspec == {i \in ClaimedSlots(c) :
                     c.vlan[i].tag = NET_VLAN_TAG_UNSPEC}
    IN /\ Match # {} => last.found = c.vlan[FirstSlot(Match)].iface
       /\ (Match = {} /\ Unspec # {})
            => last.found = c.vlan[FirstSlot(Unspec)].iface
       /\ (Match = {} /\ Unspec = {}) => last.found = NULL

\* a lookup of a tag no claimed slot holds, in a table with claimed slots
\* among which one has a concrete tag and a later one an unspecified tag:
\* the interface returned is the one of the later slot
C15_Witness ==
  /\ last.op = "get_vlan_iface"
  /\ LET c == ctx[net_if_l2_data(last.iface)] IN
     /\ last.tag # NET_VLAN_TAG_UNSPEC
     /\ \A i \in Slots : c.vlan[i].tag # last.tag
     /\ c.vlan[1].tag # NET_VLAN_TAG_UNSPEC
     /\ \E i \in Slots : /\ c.vlan[i].tag = NET_VLAN_TAG_UNSPEC
                         /\ last.found = c.vlan[i].iface
                         /\ last.found # NULL

\* a lookup of tag 0 that stops at a slot never claimed and returns the null
\* pointer although a claimed slot with an unspecified tag precedes it
C15_WitnessUnclaimed ==
  /\ last.op = "get_vlan_iface" /\ last.tag = 0 /\ last.found = NULL
  /\ LET c == ctx[net_if_l2_data(last.iface)] IN
     /\ c.vlan[1].iface # NULL /\ c.vlan[1].tag = NET_VLAN_TAG_UNSPEC
     /\ \E i \in Slots : c.vlan[i].iface = NULL /\ c.vlan[i].tag = 0

\* a lookup that returns the null pointer from a table whose slots are all
\* claimed and hold other concrete tags
C15_WitnessFull ==
  /\ last.op = "get_vlan_iface" /\ last.found = NULL
  /\ LET c == ctx[net_if_l2_data(last.iface)] IN
     \A i \in Slots : /\ c.vlan[i].iface # NULL
                      /\ c.vlan[i].tag \notin {last.tag, NET_VLAN_TAG_UNSPEC}

\* the send recorded reached the header set-up of ethernet_send with VLAN
\* enabled for the sending interface
TxVlanSetup ==
  /\ tx.op = "send"
  /\ tx.site \in {"sent", "no_vlan_route"}
  /\ net_eth_is_vlan_enabled(ctx[net_if_l2_data(tx.iface)], tx.iface)

\* the slots of the table of the sending interface with a concrete tag that
\* the effective source interface of the packet sent owns
TxRouteSlots ==
  LET eff == IF tx.in.src_iface # NULL THEN tx.in.src_iface ELSE tx.iface
  IN ConcreteSlots(ctx[net_if_l2_data(tx.iface)], eff)

\* the tag of the packet sent is resolved as C16 says, and a packet handed
\* to the transmit queue carries a concrete tag
TxTagResolved ==
  /\ net_pkt_vlan_tag(tx.in) # NET_VLAN_TAG_UNSPEC
       => /\ tx.verdict = "NET_OK"
          /\ net_pkt_vlan_tag(tx.pkt) = net_pkt_vlan_tag(tx.in)
  /\ (net_pkt_vlan_tag(tx.in) = NET_VLAN_TAG_UNSPEC /\ TxRouteSlots # {})
       => /\ tx.verdict = "NET_OK"
          /\ net_pkt_vlan_tag(tx.pkt)
               = ctx[net_if_l2_data(tx.iface)].vlan[FirstSlot(TxRouteSlots)].tag
  /\ (net_pkt_vlan_tag(tx.in) = NET_VLAN_TAG_UNSPEC /\ TxRouteSlots = {})
       => /\ tx.verdict = "NET_DROP"
          /\ \A k \in DOMAIN tx.log : tx.log[k].e # "queue_tx"
  /\ \A k \in DOMAIN tx.log :
       tx.log[k].e = "queue_tx"
         => net_pkt_vlan_tag(tx.pkt) # NET_VLAN_TAG_UNSPEC

\* C16 as stated: with VLAN enabled at header set-up a concrete tag of the
\* packet is kept, an unspecified one is replaced by the first concrete tag
\* of the effective source interface, and without such an entry the send
\* returns NET_DROP having written no header and enqueued nothing; every
\* packet enqueued carries a concrete tag.
C16_VlanTagOnSend ==
  TxVlanSetup =>
    /\ TxTagResolved
    /\ tx.verdict = "NET_DROP" => tx.pkt.frags = tx.in.frags

\* C16 amended: as stated, except that on NET_DROP it is the header builder
\* that has run for no fragment; the destination field of the first
\* fragment has been written when the destination is IPv4 224.x.x.x, or
\* IPv6 multicast with no link destination set, and nothing else has.
C16_VlanTagOnSendNoBuild ==
  TxVlanSetup =>
    /\ TxTagResolved
    /\ tx.verdict = "NET_DROP" =>
         LET mcast == \/ tx.in.family = "AF_INET" /\ tx.in.ip_dst[1] = 224
                      \/ /\ tx.in.family = "AF_INET6"
                         /\ net_is_ipv6_addr_mcast(tx.in.ip_dst)
                         /\ tx.in.ll_dst = NullPtr
         IN /\ tx.log = <<>>
            /\ \A k \in DOMAIN tx.in.frags :
                 tx.pkt.frags[k] =
                   IF k = 1 /\ mcast
                   THEN [tx.in.frags[k] EXCEPT !.dst = tx.pkt.frags[1].dst]
                   ELSE tx.in.frags[k]
            /\ mcast => tx.pkt.frags[1].dst # tx.in.frags[1].dst

\* a packet without tag for 224.x.x.x whose source address belongs to an
\* interface without concrete tag is dropped at the header set-up, the
\* destination field of its first fragment already written
C16_Witness ==
  /\ TxVlanSetup
  /\ tx.site = "no_vlan_route"
  /\ tx.in.src_iface # NULL /\ tx.in.src_iface # tx.iface
  /\ tx.in.ip_dst[1] = 224
  /\ tx.pkt.frags[1].dst # tx.in.frags[1].dst

\* a packet without tag sent on one interface gets the tag of the interface
\* that owns its source address
C16_WitnessResolved ==
  /\ TxVlanSetup
  /\ tx.verdict = "NET_OK"
  /\ net_pkt_vlan_tag(tx.in) = NET_VLAN_TAG_UNSPEC
  /\ tx.in.src_iface # NULL /\ tx.in.src_iface # tx.iface
  /\ ConcreteSlots(ctx[net_if_l2_data(tx.iface)], tx.iface) # {}
  /\ net_pkt_vlan_tag(tx.pkt) \notin
       {ctx[net_if_l2_data(tx.iface)].vlan[i].tag :
          i \in ConcreteSlots(ctx[net_if_l2_data(tx.iface)], tx.iface)}

\* the send recorded does not go through ARP resolution: the packet is not
\* IPv4, or its destination is the IPv4 broadcast address or 224.x.x.x
TxNoArp ==
  /\ tx.op = "send"
  /\ \/ tx.in.family # "AF_INET"
     \/ tx.in.ip_dst = net_ipv4_broadcast_address
     \/ tx.in.ip_dst[1] = 224

\* C17: a send that does not go through ARP resolution and returns NET_OK
\* has called net_eth_fill_header exactly once for each fragment of the
\* packet, in chain order, with the same protocol type, source and
\* destination, and then handed the packet to the transmit queue.
C17_FillEveryFragment ==
  (TxNoArp /\ tx.verdict = "NET_OK") =>
    LET n == Len(tx.in.frags) IN
    /\ Len(tx.log) = n + 1
    /\ \A k \in 1..n :
         /\ tx.log[k].e = "fill"
         /\ tx.log[k].pkt = tx.in.id
         /\ tx.log[k].frag = k
         /\ tx.log[k].ptype = tx.log[1].ptype
         /\ tx.log[k].src = tx.log[1].src
         /\ tx.log[k].dst = tx.log[1].dst
    /\ tx.log[n + 1].e = "queue_tx"
    /\ tx.log[n + 1].pkt = tx.in.id

\* a packet of more than one fragment for an IPv6 multicast destination,
\* whose link destination is composed in the header of its first fragment,
\* has been sent
C17_Witness ==
  /\ TxNoArp /\ tx.verdict = "NET_OK"
  /\ Len(tx.in.frags) > 1
  /\ tx.in.family = "AF_INET6"
  /\ tx.pkt.ll_dst = HdrDstPtr
  /\ \E k \in DOMAIN tx.log : tx.log[k].e = "fill" /\ tx.log[k].frag > 1

\* the sum of the fragment lengths frags[1..k]
RECURSIVE FragsTotal(_, _)
FragsTotal(frags, k) ==
  IF k = 0 THEN 0 ELSE frags[k] + FragsTotal(frags, k - 1)

\* the length the IP header of the packet declares, as a number: the IPv4
\* total length, or the IPv6 payload length plus the fixed header
NetworkLen(pkt) ==
  IF pkt.family = "AF_INET"
  THEN pkt.w[16][1] * 256 + pkt.w[16][2]
  ELSE pkt.w[18][1] * 256 + pkt.w[18][2] + NET_IPV6H_LEN

\* C18: ethernet_update_length changes fragment lengths only when the length
\* the IP header declares (for IPv6 the payload length plus 40) is below 46,
\* so for no value of the IPv6 payload-length field with payload + 40 >= 46
\* is a fragment shortened; when lengths change their total becomes the
\* declared length, and no fragment length increases.
C18_TrimOnlyShortPackets ==
  ul.n >= 1 =>
    /\ ul.once.frags # ul.in.frags
         => /\ NetworkLen(ul.in) < NET_ETH_MINIMAL_FRAME_SIZE - SizeofEthHdr
            /\ FragsTotal(ul.once.frags, Len(ul.once.frags))
                 = NetworkLen(ul.in)
    /\ \A k \in DOMAIN ul.in.frags : ul.once.frags[k] <= ul.in.frags[k]

\* an IPv6 packet whose payload-length field is 65535 has had a fragment
\* shortened
C18_Witness ==
  /\ ul.n >= 1
  /\ ul.in.family = "AF_INET6"
  /\ ul.in.w[18] = <<255, 255>>
  /\ \E k \in DOMAIN ul.in.frags : ul.once.frags[k] < ul.in.frags[k]

\* C18 for the packets whose declared length plus, for IPv6, the fixed header
\* fits 16 bits
C18_TrimOnlyShortPacketsNoWrap ==
  (ul.n >= 1 /\ NetworkLen(ul.in) < 65536) =>
    /\ ul.once.frags # ul.in.frags
         => /\ NetworkLen(ul.in) < NET_ETH_MINIMAL_FRAME_SIZE - SizeofEthHdr
            /\ FragsTotal(ul.once.frags, Len(ul.once.frags))
                 = NetworkLen(ul.in)
    /\ \A k \in DOMAIN ul.in.frags : ul.once.frags[k] <= ul.in.frags[k]

\* the hand-overs to the transmit queue in the log of the send recorded
TxQueued == {k \in DOMAIN tx.log : tx.log[k].e = "queue_tx"}

\* C19: every ethernet_send call hands a packet to the transmit queue
\* exactly once if it returns NET_OK and not at all if it returns NET_DROP.
C19_QueuedOnceIffOk ==
  tx.op = "send" =>
    /\ tx.verdict \in {"NET_OK", "NET_DROP"}
    /\ tx.verdict = "NET_OK" => Cardinality(TxQueued) = 1
    /\ tx.verdict = "NET_DROP" => TxQueued = {}
    /\ \A k \in TxQueued : k = Len(tx.log) /\ tx.log[k].pkt = tx.pkt.id

\* a send whose packet went to the ARP pending queue: the packet is
\* released and the ARP request is queued in its place, once
C19_Witness ==
  /\ tx.op = "send" /\ tx.verdict = "NET_OK"
  /\ tx.pkt.id # tx.in.id
  /\ \E k \in DOMAIN tx.log : tx.log[k].e = "unref"
  /\ Cardinality(TxQueued) = 1

\* a send dropped for lack of a VLAN route has queued nothing
C19_WitnessDrop ==
  /\ tx.op = "send" /\ tx.verdict = "NET_DROP"
  /\ tx.site = "no_vlan_route"
  /\ TxQueued = {}

\* C20: under any interleaving of reserve, enable, disable and send on one
\* context, the header net_eth_fill_header writes for a fragment lies inside
\* the headroom that ethernet_reserve sized when the packet was allocated:
\* no byte at or after the data start of a fragment is overwritten.
C20_HeaderInsideReserve ==
  tx.op = "send" =>
    \A k \in DOMAIN tx.log :
      tx.log[k].e = "fill" => tx.pkt.frags[tx.log[k].frag].clobber = 0

\* a packet allocated while VLAN was not enabled for its interface and sent
\* after VLAN was enabled: the VLAN header written for a fragment reaches
\* SizeofEthVlanHdr - SizeofEthHdr bytes into the data of the fragment
C20_Witness ==
  /\ tx.op = "send" /\ tx.verdict = "NET_OK"
  /\ tx.in.ll_reserve = SizeofEthHdr
  /\ net_eth_is_vlan_enabled(ctx[net_if_l2_data(tx.iface)], tx.iface)
  /\ \E k \in DOMAIN tx.log :
       /\ tx.log[k].e = "fill"
       /\ tx.pkt.frags[tx.log[k].frag].clobber
            = SizeofEthVlanHdr - SizeofEthHdr

\* C20 without interleaving: a packet sent while ethernet_reserve still
\* returns the size its headroom was given has its headers inside the
\* headroom
C20_HeaderInsideReserveUnchanged ==
  (tx.op = "send"
     /\ tx.in.ll_reserve
          = ethernet_reserve(ctx[net_if_l2_data(tx.iface)], tx.iface))
    => \A k \in DOMAIN tx.pkt.frags : tx.pkt.frags[k].clobber = 0

\* the call recorded is an enable or disable call that returned an error
ErrorCall == last.op \in {"enable", "disable"} /\ last.ret # "0"

\* C21: an enable or disable call that returns an error leaves the context
\* as it was before the call, in the tag and the owner of every table entry,
\* the enabled-interfaces bitmask, the enabled count and the initialized
\* flag, and does not invoke the driver's vlan_setup hook.
C21_ErrorLeavesContext ==
  ErrorCall =>
    LET c == ctx[net_if_l2_data(last.iface)] IN
    /\ \A i \in Slots : /\ c.vlan[i].tag = last.pre.vlan[i].tag
                        /\ c.vlan[i].iface = last.pre.vlan[i].iface
    /\ c.interfaces = last.pre.interfaces
    /\ c.vlan_enabled = last.pre.vlan_enabled
    /\ c.is_init = last.pre.is_init
    /\ ~last.hook

\* an enable call for an interface that owns no slot of an initialized
\* context with a tag enabled has returned -ENOSPC, the driver having a
\* vlan_setup hook
C21_Witness ==
  /\ last.op = "enable" /\ last.ret = "-ENOSPC"
  /\ HasVlanSetup(last.iface)
  /\ \A i \in Slots : last.pre.vlan[i].iface # last.iface
  /\ last.pre.vlan_enabled > 0
  /\ net_if_get_by_iface(last.iface) \notin last.pre.interfaces

\* a disable call for a tag the interface does not hold has returned -ESRCH
\* while the interface holds another tag and its bit is set
C21_WitnessDisable ==
  /\ last.op = "disable" /\ last.ret = "-ESRCH"
  /\ HasVlanSetup(last.iface)
  /\ ConcreteSlots(last.pre, last.iface) # {}
  /\ BitSet(last.pre, last.iface)

\* every error return of the two calls occurs
C21_WitnessEinval == ErrorCall /\ last.ret = "-EINVAL" /\ last.op = "disable"
C21_WitnessEperm == ErrorCall /\ last.ret = "-EPERM"
C21_WitnessEbadf == ErrorCall /\ last.ret = "-EBADF" /\ last.pre.vlan_enabled > 0
C21_WitnessEalready ==
  ErrorCall /\ last.ret = "-EALREADY" /\ ~last.again

\* a step that is an enable or disable call returning an error changes no
\* context at all
C21_ErrorStepKeepsContexts ==
  [][(last'.op \in {"enable", "disable"} /\ last'.ret # "0") => ctx' = ctx]_vars

====
